---------------------------- MODULE Spec2Model ----------------------------
(* A model of the ST7701 panel driver (esp_lcd_st7701.c).                  *)
(*                                                                         *)
(* One panel lifecycle is modelled: esp_lcd_new_panel_st7701 is called     *)
(* once; when it succeeds the caller invokes the overridden operations of  *)
(* the returned handle (init, reset, mirror, invert_color) in any order    *)
(* and with any outcome of the transport, and finally del.  Every handler  *)
(* is one atomic action (section 5 of the specification: single-threaded,  *)
(* run to completion); the calls a handler makes on its collaborators      *)
(* (transport, GPIO, heap, wrapped DPI panel, vTaskDelay) are recorded, in *)
(* program order, in the variable trace.                                   *)
EXTENDS Integers, Sequences, FiniteSets

VARIABLES
    phase,    \* "idle" (before create), "live", "failed" (create failed), "deleted"
    args,     \* the arguments of the create call
    st7701,   \* the st7701_panel_t allocated by create (its field values)
    panel,    \* the esp_lcd_panel_t returned through ret_panel
    res,      \* resources: heap block of st7701, reset pin, wrapped DPI panel
    last,     \* the most recent call on the driver: operation, inputs, return value
    prev,     \* the call before it
    trace,    \* the collaborator calls made by the most recent call, in order
    pc,       \* "idle", or "send_init_cmds" while init plays the command table
    i         \* the loop index of panel_st7701_send_init_cmds (1-based), 0 when idle

vars == <<phase, args, st7701, panel, res, last, prev, trace, pc, i>>

\* ------------------------------------------------------------------ bounds

\* Largest init_cmds_size a caller passes with its own command table.
MaxCustomCmds == 2

\* ------------------------------------------------------- program constants

ST7701_CMD_BGR_BIT == 8
ST7701_CMD_ML_BIT == 16
ST7701_MDCTL_VALUE_DEFAULT == 0

\* ----------------------------------------------------------------- helpers

\* uint8_t bit tests and updates with a single-bit mask b
HasBit(v, b) == (v \div b) % 2 = 1
\* v |= b
OrBit(v, b) == IF HasBit(v, b) THEN v ELSE (v + b) % 256
\* v &= ~b
AndNotBit(v, b) == IF HasBit(v, b) THEN v - b ELSE v

\* One call on a collaborator: the function called, its subject (a command,
\* a callee, a block), a number (pin, byte count, milliseconds), the bytes
\* handed over and what the call returned.
Ev(kind, what, n, bytes, ret) ==
    [ev |-> kind, what |-> what, n |-> n, bytes |-> bytes, ret |-> ret]

Cmd(c, d, n, ms) == [cmd |-> c, data |-> d, data_bytes |-> n, delay_ms |-> ms]

\* Return values of the transport's esp_lcd_panel_io_tx_param
TxResults == {"ESP_OK", "ESP_FAIL", "ESP_ERR_TIMEOUT"}
\* Return values of gpio_config
GpioConfigResults == {"ESP_OK", "ESP_ERR_INVALID_ARG"}
\* Return values of esp_lcd_new_panel_dpi and of the DPI panel's init
DpiResults == {"ESP_OK", "ESP_ERR_NO_MEM"}

\* A byte read from beyond the end of an array: whatever the build placed there.
StrayBytes == {0, 68}


\* ------------------------------------------------------------ command tables

\* The built-in table: {cmd, data, data_bytes, delay_ms} per entry.  data is
\* the array the entry points to, data_bytes the count the entry declares.
vendor_specific_init_default == <<
    Cmd("0xFF", <<\h77, \h01, \h00, \h00, \h00>>, 5, 0),
    Cmd("LCD_CMD_NORON", <<\h00>>, 0, 0),
    Cmd("0xEF", <<\h08>>, 1, 0),
    Cmd("0xFF", <<\h77, \h01, \h00, \h00, \h10>>, 5, 0),
    Cmd("0xC0", <<\h63, \h00>>, 2, 0),
    Cmd("0xC1", <<\h10, \h02>>, 2, 0),
    Cmd("0xC2", <<\h37, \h08>>, 2, 0),
    Cmd("0xCC", <<\h38>>, 1, 0),
    Cmd("0xB0", <<\h40, \hC9, \h90, \h0D, \h0F, \h04, \h00, \h07, \h07, \h1C, \h04, \h52, \h0F, \hDF, \h26, \hCF>>, 16, 0),
    Cmd("0xB1", <<\h40, \hC9, \hCF, \h0C, \h90, \h04, \h00, \h07, \h08, \h1B, \h06, \h55, \h13, \h62, \hE7, \hCF>>, 16, 0),
    Cmd("0xFF", <<\h77, \h01, \h00, \h00, \h11>>, 5, 0),
    Cmd("0xB0", <<\h5D>>, 1, 0),
    Cmd("0xB1", <<\h2D>>, 1, 0),
    Cmd("0xB2", <<\h07>>, 1, 0),
    Cmd("0xB3", <<\h80>>, 1, 0),
    Cmd("0xB5", <<\h08>>, 1, 0),
    Cmd("0xB7", <<\h85>>, 1, 0),
    Cmd("0xB8", <<\h20>>, 1, 0),
    Cmd("0xB9", <<\h10>>, 1, 0),
    Cmd("0xC1", <<\h78>>, 1, 0),
    Cmd("0xC2", <<\h78>>, 1, 0),
    Cmd("0xD0", <<\h88>>, 1, 100),
    Cmd("0xE0", <<\h00, \h19, \h02>>, 3, 0),
    Cmd("0xE1", <<\h05, \hA0, \h07, \hA0, \h04, \hA0, \h06, \hA0, \h00, \h44, \h44>>, 11, 0),
    Cmd("0xE2", <<\h00, \h00, \h00, \h00, \h00, \h00, \h00, \h00, \h00, \h00, \h00, \h00, \h00>>, 13, 0),
    Cmd("0xE3", <<\h00, \h00, \h33, \h33>>, 5, 0),
    Cmd("0xE4", <<\h44, \h44>>, 2, 0),
    Cmd("0xE5", <<\h0D, \h31, \hC8, \hAF, \h0F, \h33, \hC8, \hAF, \h09, \h2D, \hC8, \hAF, \h0B, \h2F, \hC8, \hAF>>, 16, 0),
    Cmd("0xE6", <<\h00, \h00, \h33, \h33>>, 4, 0),
    Cmd("0xE7", <<\h44, \h44>>, 2, 0),
    Cmd("0xE8", <<\h0C, \h30, \hC8, \hAF, \h0E, \h32, \hC8, \hAF, \h08, \h2C, \hC8, \hAF, \h0A, \h2E, \hC8, \hAF>>, 16, 0),
    Cmd("0xEB", <<\h02, \h00, \hE4, \hE4, \h44, \h00, \h40>>, 7, 0),
    Cmd("0xEC", <<\h3C, \h00>>, 2, 0),
    Cmd("0xED", <<\hAB, \h89, \h76, \h54, \h01, \hFF, \hFF, \hFF, \hFF, \hFF, \hFF, \h10, \h45, \h67, \h98, \hBA>>, 16, 0),
    Cmd("0xFF", <<\h77, \h01, \h00, \h00, \h00>>, 5, 0),
    Cmd("LCD_CMD_SLPOUT", <<\h00>>, 0, 120),
    Cmd("LCD_CMD_DISPON", <<\h00>>, 0, 50)
>>

\* The array a caller passes as vendor_config->init_cmds; init_cmds_size says
\* how many of its entries are to be played (never more than it holds).
CustomCmds == <<
    Cmd("0xC0", <<\h3B, \h00>>, 2, 10),
    Cmd("LCD_CMD_SLPOUT", <<\h00>>, 0, 120),
    Cmd("0xB0", <<\h5D>>, 1, 0),
    Cmd("LCD_CMD_DISPON", <<\h00>>, 0, 20)
>>

NullTable == [null |-> TRUE, tbl |-> <<>>]
CustomTable == [null |-> FALSE, tbl |-> CustomCmds]

\* --------------------------------------------------------------- the state

\* st7701_panel_t as calloc returns it: every field zero.
ZeroState == [
    io |-> "NULL", reset_gpio_num |-> 0, madctl_val |-> 0, colmod_val |-> 0,
    init_cmds |-> NullTable, init_cmds_size |-> 0, lane_num |-> 0,
    reset_level |-> 0, del |-> "NULL", init |-> "NULL"]

\* No esp_lcd_panel_t has been returned.
NoPanel == [
    del |-> "NULL", init |-> "NULL", reset |-> "NULL", mirror |-> "NULL",
    invert_color |-> "NULL", user_data |-> "NULL"]

\* esp_lcd_panel_t as esp_lcd_new_panel_dpi returns it.
DpiPanel == [
    del |-> "dpi_panel_del", init |-> "dpi_panel_init", reset |-> "dpi_panel_reset",
    mirror |-> "dpi_panel_mirror", invert_color |-> "dpi_panel_invert_color",
    user_data |-> "NULL"]

NoResources == [
    heap |-> "none", frees |-> 0, gpio_configured |-> FALSE, gpio_resets |-> 0,
    dpi |-> "none", dpi_dels |-> 0]

NoCall == [op |-> "none", ret |-> "ESP_OK", x |-> FALSE, y |-> FALSE, before |-> 0]

\* What is remembered of a call once the next one is made: a mirror call that
\* succeeded, with its mirror_x and the madctl_val it found.
Earlier(c) ==
    IF c.op = "mirror" /\ c.ret = "ESP_OK" THEN [c EXCEPT !.y = FALSE] ELSE NoCall

Call(op, ret, x, y, before) ==
    [op |-> op, ret |-> ret, x |-> x, y |-> y, before |-> before]

\* What one collaborator call does to the resources.
ApplyEvent(r, e) ==
    CASE e.ev = "calloc" /\ e.ret = "ESP_OK" -> [r EXCEPT !.heap = "allocated"]
      [] e.ev = "free" -> [r EXCEPT !.heap = "freed", !.frees = @ + 1]
      [] e.ev = "gpio_config" /\ e.ret = "ESP_OK" -> [r EXCEPT !.gpio_configured = TRUE]
      [] e.ev = "gpio_reset_pin" ->
            [r EXCEPT !.gpio_configured = FALSE, !.gpio_resets = @ + 1]
      [] e.ev = "esp_lcd_new_panel_dpi" /\ e.ret = "ESP_OK" -> [r EXCEPT !.dpi = "alive"]
      [] e.ev = "call" /\ e.what = "dpi_panel_del" ->
            [r EXCEPT !.dpi = "deleted", !.dpi_dels = @ + 1]
      [] OTHER -> r

RECURSIVE ApplyEvents(_, _)
ApplyEvents(r, es) ==
    IF es = <<>> THEN r ELSE ApplyEvents(ApplyEvent(r, Head(es)), Tail(es))

\* ------------------------------------------------------------- construction

ResetPins == {-1, 5}
ColorOrders == {"LCD_RGB_ELEMENT_ORDER_RGB", "LCD_RGB_ELEMENT_ORDER_BGR", "invalid"}
BitsPerPixel == {16, 18, 24, 8}
LaneNums == {2}

\* The arguments of esp_lcd_new_panel_st7701.  io, panel_dev_config, ret_panel,
\* vendor_config, dpi_config and dsi_bus say whether that pointer is non-null.
CreateArgs ==
    [io : BOOLEAN, panel_dev_config : BOOLEAN, ret_panel : BOOLEAN,
     vendor_config : BOOLEAN, dpi_config : BOOLEAN, dsi_bus : BOOLEAN,
     reset_gpio_num : ResetPins, reset_active_high : {0, 1},
     rgb_ele_order : ColorOrders, bits_per_pixel : BitsPerPixel,
     init_cmds : {NullTable, CustomTable},
     init_cmds_size : 0 .. MaxCustomCmds,
     lane_num : LaneNums]

NoArgs == [
    io |-> FALSE, panel_dev_config |-> FALSE, ret_panel |-> FALSE,
    vendor_config |-> FALSE, dpi_config |-> FALSE, dsi_bus |-> FALSE,
    reset_gpio_num |-> -1, reset_active_high |-> 0,
    rgb_ele_order |-> "invalid", bits_per_pixel |-> 8,
    init_cmds |-> NullTable, init_cmds_size |-> 0, lane_num |-> 2]

\* ESP_RETURN_ON_FALSE(io && panel_dev_config && ret_panel, ...)
ArgsPresent(a) == a.io /\ a.panel_dev_config /\ a.ret_panel

\* ESP_RETURN_ON_FALSE(vendor_config && dpi_config && dsi_bus, ...)
VendorConfigPresent(a) == a.vendor_config /\ a.dpi_config /\ a.dsi_bus

\* switch (rgb_ele_order): the madctl_val the switch leaves
ColorOrderSupported(order) ==
    order \in {"LCD_RGB_ELEMENT_ORDER_RGB", "LCD_RGB_ELEMENT_ORDER_BGR"}

ColorOrderMadctl(madctl, order) ==
    IF order = "LCD_RGB_ELEMENT_ORDER_RGB" THEN AndNotBit(madctl, ST7701_CMD_BGR_BIT)
    ELSE IF order = "LCD_RGB_ELEMENT_ORDER_BGR" THEN OrBit(madctl, ST7701_CMD_BGR_BIT)
    ELSE madctl

\* switch (bits_per_pixel): the colmod_val the switch leaves
BppSupported(bpp) == bpp \in {16, 18, 24}

\* A faulty switch: 18 bits per pixel mapped to 0x66.
ColmodOf_wrong666(colmod, bpp) ==
    CASE bpp = 16 -> \h50
      [] bpp = 18 -> \h66
      [] bpp = 24 -> \h70
      [] OTHER -> colmod

ColmodOf(colmod, bpp) ==
    CASE bpp = 16 -> \h50
      [] bpp = 18 -> \h60
      [] bpp = 24 -> \h70
      [] OTHER -> colmod

\* st7701->io = io; ... st7701->madctl_val = ST7701_MDCTL_VALUE_DEFAULT;
PopulateState(s, a) ==
    [s EXCEPT !.io = "io",
              !.init_cmds = a.init_cmds,
              !.init_cmds_size = a.init_cmds_size % 65536,
              !.lane_num = a.lane_num % 256,
              !.reset_gpio_num = a.reset_gpio_num,
              !.reset_level = a.reset_active_high % 2,
              !.madctl_val = ST7701_MDCTL_VALUE_DEFAULT]

\* A faulty order: the panel functions are overwritten before they are saved.
InstallOverrides_captureLate(p, s) ==
    LET q == [p EXCEPT !.del = "panel_st7701_del",
                       !.init = "panel_st7701_init",
                       !.reset = "panel_st7701_reset",
                       !.mirror = "panel_st7701_mirror",
                       !.invert_color = "panel_st7701_invert_color",
                       !.user_data = "st7701"]
    IN  [st |-> [s EXCEPT !.del = q.del, !.init = q.init], panel |-> q]

\* Save the original functions of the DPI panel, then overwrite them.
InstallOverrides(p, s) ==
    LET s1 == [s EXCEPT !.del = p.del, !.init = p.init]
    IN  [st |-> s1,
         panel |-> [p EXCEPT !.del = "panel_st7701_del",
                             !.init = "panel_st7701_init",
                             !.reset = "panel_st7701_reset",
                             !.mirror = "panel_st7701_mirror",
                             !.invert_color = "panel_st7701_invert_color",
                             !.user_data = "st7701"]]

\* A faulty err: label that frees the state only when no pin was given.
CreateCleanup_leak(a) ==
    IF a.reset_gpio_num >= 0
    THEN <<Ev("gpio_reset_pin", "", a.reset_gpio_num, <<>>, "ESP_OK")>>
    ELSE <<Ev("free", "st7701", 0, <<>>, "ESP_OK")>>

\* The err: label.  st7701 is non-null whenever the label is reached.
CreateCleanup(a) ==
    (IF a.reset_gpio_num >= 0
     THEN <<Ev("gpio_reset_pin", "", a.reset_gpio_num, <<>>, "ESP_OK")>>
     ELSE <<>>)
    \o <<Ev("free", "st7701", 0, <<>>, "ESP_OK")>>

CreateResult(ret, s, p, tr) == [ret |-> ret, st |-> s, panel |-> p, trace |-> tr]

\* esp_lcd_new_panel_st7701 with the outcomes of calloc, gpio_config and
\* esp_lcd_new_panel_dpi given.
NewPanel(a, callocOk, gpioRet, dpiRet) ==
    IF ~ArgsPresent(a) THEN CreateResult("ESP_ERR_INVALID_ARG", ZeroState, NoPanel, <<>>)
    ELSE IF ~VendorConfigPresent(a)
    THEN CreateResult("ESP_ERR_INVALID_ARG", ZeroState, NoPanel, <<>>)
    ELSE IF ~callocOk
    THEN CreateResult("ESP_ERR_NO_MEM", ZeroState, NoPanel,
                      <<Ev("calloc", "st7701", 1, <<>>, "NULL")>>)
    ELSE
    LET t0 == <<Ev("calloc", "st7701", 1, <<>>, "ESP_OK")>>
        t1 == IF a.reset_gpio_num >= 0
              THEN t0 \o <<Ev("gpio_config", "", a.reset_gpio_num, <<>>, gpioRet)>>
              ELSE t0
        s1 == [ZeroState EXCEPT
                 !.madctl_val = ColorOrderMadctl(ZeroState.madctl_val, a.rgb_ele_order)]
        s2 == [s1 EXCEPT !.colmod_val = ColmodOf(s1.colmod_val, a.bits_per_pixel)]
        s3 == PopulateState(s2, a)
        t2 == t1 \o <<Ev("esp_lcd_new_panel_dpi", "", 0, <<>>, dpiRet)>>
        done == InstallOverrides(DpiPanel, s3)
    IN
    IF a.reset_gpio_num >= 0 /\ gpioRet # "ESP_OK"
    THEN CreateResult(gpioRet, ZeroState, NoPanel, t1 \o CreateCleanup(a))
    ELSE IF ~ColorOrderSupported(a.rgb_ele_order)
    THEN CreateResult("ESP_ERR_NOT_SUPPORTED", ZeroState, NoPanel, t1 \o CreateCleanup(a))
    ELSE IF ~BppSupported(a.bits_per_pixel)
    THEN CreateResult("ESP_ERR_NOT_SUPPORTED", ZeroState, NoPanel, t1 \o CreateCleanup(a))
    ELSE IF dpiRet # "ESP_OK"
    THEN CreateResult(dpiRet, ZeroState, NoPanel, t2 \o CreateCleanup(a))
    ELSE CreateResult("ESP_OK", done.st, done.panel, t2)

esp_lcd_new_panel_st7701 ==
    /\ phase = "idle"
    /\ \E a \in CreateArgs, callocOk \in BOOLEAN,
          gpioRet \in GpioConfigResults, dpiRet \in DpiResults :
         LET r == NewPanel(a, callocOk, gpioRet, dpiRet) IN
         /\ phase' = IF r.ret = "ESP_OK" THEN "live" ELSE "failed"
         /\ args' = a
         /\ st7701' = r.st
         /\ panel' = r.panel
         /\ res' = ApplyEvents(res, r.trace)
         /\ trace' = r.trace
         /\ prev' = Earlier(last)
         /\ last' = Call("create", r.ret, FALSE, FALSE, 0)
    /\ UNCHANGED <<pc, i>>

\* ------------------------------------------------------------------- init

\* The table panel_st7701_send_init_cmds plays and the number of entries.
ResolvedCmds(s) ==
    IF ~s.init_cmds.null THEN s.init_cmds.tbl ELSE vendor_specific_init_default

ResolvedSize(s) ==
    IF ~s.init_cmds.null THEN s.init_cmds_size ELSE Len(vendor_specific_init_default)

\* The data_bytes bytes the transport reads at an entry's data pointer.
SentBytes(e, stray) ==
    [j \in 1 .. e.data_bytes |-> IF j <= Len(e.data) THEN e.data[j] ELSE stray]

\* A faulty loop body that ignores what the transmission returned.
SendStep_keepGoing(tbl, idx, txRet, stray) ==
    LET e == tbl[idx] IN
    [ret |-> "ESP_OK",
     calls |-> <<Ev("tx", e.cmd, e.data_bytes, SentBytes(e, stray), txRet),
                 Ev("vTaskDelay", "", e.delay_ms, <<>>, "ESP_OK")>>]

\* One iteration of the for loop, entry idx of the table: the transmission,
\* which returns txRet, and the delay that follows when it succeeded.
SendStep(tbl, idx, txRet, stray) ==
    LET e == tbl[idx]
        tx == Ev("tx", e.cmd, e.data_bytes, SentBytes(e, stray), txRet)
    IN  IF txRet # "ESP_OK" THEN [ret |-> txRet, calls |-> <<tx>>]
        ELSE [ret |-> "ESP_OK",
              calls |-> <<tx, Ev("vTaskDelay", "", e.delay_ms, <<>>, "ESP_OK")>>]

\* panel_st7701_init is entered: panel_st7701_send_init_cmds resolves the
\* table and starts the loop at its first entry.
panel_st7701_init ==
    /\ phase = "live"
    /\ pc = "idle"
    /\ panel.init = "panel_st7701_init"
    /\ pc' = "send_init_cmds"
    /\ i' = 1
    /\ trace' = <<>>
    /\ prev' = Earlier(last)
    /\ last' = Call("init", "running", FALSE, FALSE, st7701.madctl_val)
    /\ UNCHANGED <<phase, args, st7701, panel, res>>

\* for (i < init_cmds_size): transmit entry i, return on failure, else delay.
panel_st7701_send_init_cmds ==
    /\ pc = "send_init_cmds"
    /\ i <= ResolvedSize(st7701)
    /\ \E txRet \in TxResults, stray \in StrayBytes :
         LET r == SendStep(ResolvedCmds(st7701), i, txRet, stray) IN
         /\ trace' = trace \o r.calls
         /\ res' = ApplyEvents(res, r.calls)
         /\ IF r.ret # "ESP_OK"
            THEN /\ pc' = "idle"
                 /\ i' = 0
                 /\ last' = [last EXCEPT !.ret = r.ret]
            ELSE /\ pc' = pc
                 /\ i' = i + 1
                 /\ last' = last
    /\ UNCHANGED <<phase, args, st7701, panel, prev>>

\* The loop is over: panel_st7701_init calls st7701->init and returns what
\* it returns.
InitDelegate(s, initRet) ==
    [ret |-> initRet, calls |-> <<Ev("call", s.init, 0, <<>>, initRet)>>]

panel_st7701_init_delegate ==
    /\ pc = "send_init_cmds"
    /\ i > ResolvedSize(st7701)
    /\ \E initRet \in DpiResults :
         LET r == InitDelegate(st7701, initRet) IN
         /\ trace' = trace \o r.calls
         /\ res' = ApplyEvents(res, r.calls)
         /\ last' = [last EXCEPT !.ret = r.ret]
    /\ pc' = "idle"
    /\ i' = 0
    /\ UNCHANGED <<phase, args, st7701, panel, prev>>

\* -------------------------------------------------------------------- del

\* A faulty order: the state is freed before st7701->del is read and called.
DelCalls_freeFirst(s, delRet) ==
    <<Ev("deref", "reset_gpio_num", 0, <<>>, "ESP_OK")>>
    \o (IF s.reset_gpio_num >= 0
        THEN <<Ev("gpio_reset_pin", "", s.reset_gpio_num, <<>>, "ESP_OK")>>
        ELSE <<>>)
    \o <<Ev("free", "st7701", 0, <<>>, "ESP_OK"),
         Ev("deref", "del", 0, <<>>, "ESP_OK"),
         Ev("call", s.del, 0, <<>>, delRet)>>

\* The calls of panel_st7701_del, in program order.  "deref" is a read of a
\* field of the st7701_panel_t; the ESP_LOGD after free prints the pointer
\* and reads no field.
DelCalls(s, delRet) ==
    <<Ev("deref", "reset_gpio_num", 0, <<>>, "ESP_OK")>>
    \o (IF s.reset_gpio_num >= 0
        THEN <<Ev("gpio_reset_pin", "", s.reset_gpio_num, <<>>, "ESP_OK")>>
        ELSE <<>>)
    \o <<Ev("deref", "del", 0, <<>>, "ESP_OK"),
         Ev("call", s.del, 0, <<>>, delRet),
         Ev("free", "st7701", 0, <<>>, "ESP_OK")>>

panel_st7701_del ==
    /\ phase = "live"
    /\ pc = "idle"
    /\ panel.del = "panel_st7701_del"
    /\ \E delRet \in DpiResults :
         LET tr == DelCalls(st7701, delRet) IN
         /\ trace' = tr
         /\ res' = ApplyEvents(res, tr)
    /\ phase' = "deleted"
    /\ st7701' = ZeroState
    /\ panel' = NoPanel
    /\ prev' = Earlier(last)
    /\ last' = Call("del", "ESP_OK", FALSE, FALSE, st7701.madctl_val)
    /\ UNCHANGED <<args, pc, i>>

\* ------------------------------------------------------------------ reset

\* A faulty reset that sends the software reset whether or not a pin exists.
ResetCall_alwaysSoft(s, txRet) ==
    LET soft == <<Ev("tx", "LCD_CMD_SWRESET", 0, <<>>, txRet)>> IN
    IF s.reset_gpio_num >= 0
    THEN [ret |-> "ESP_OK",
          trace |-> <<Ev("gpio_set_level", "", s.reset_gpio_num, <<s.reset_level>>, "ESP_OK"),
                      Ev("vTaskDelay", "", 10, <<>>, "ESP_OK"),
                      Ev("gpio_set_level", "", s.reset_gpio_num, <<1 - s.reset_level>>, "ESP_OK"),
                      Ev("vTaskDelay", "", 20, <<>>, "ESP_OK")>> \o soft]
    ELSE [ret |-> txRet, trace |-> soft]

\* panel_st7701_reset with the outcome of the transport.
ResetCall(s, txRet) ==
    IF s.reset_gpio_num >= 0
    THEN [ret |-> "ESP_OK",
          trace |-> <<Ev("gpio_set_level", "", s.reset_gpio_num, <<s.reset_level>>, "ESP_OK"),
                      Ev("vTaskDelay", "", 10, <<>>, "ESP_OK"),
                      Ev("gpio_set_level", "", s.reset_gpio_num, <<1 - s.reset_level>>, "ESP_OK"),
                      Ev("vTaskDelay", "", 20, <<>>, "ESP_OK")>>]
    ELSE IF s.io # "NULL"
    THEN (IF txRet # "ESP_OK"
          THEN [ret |-> txRet,
                trace |-> <<Ev("tx", "LCD_CMD_SWRESET", 0, <<>>, txRet)>>]
          ELSE [ret |-> "ESP_OK",
                trace |-> <<Ev("tx", "LCD_CMD_SWRESET", 0, <<>>, txRet),
                            Ev("vTaskDelay", "", 20, <<>>, "ESP_OK")>>])
    ELSE [ret |-> "ESP_OK", trace |-> <<>>]

panel_st7701_reset ==
    /\ phase = "live"
    /\ pc = "idle"
    /\ panel.reset = "panel_st7701_reset"
    /\ \E txRet \in TxResults :
         LET r == ResetCall(st7701, txRet) IN
         /\ trace' = r.trace
         /\ res' = ApplyEvents(res, r.trace)
         /\ prev' = Earlier(last)
         /\ last' = Call("reset", r.ret, FALSE, FALSE, st7701.madctl_val)
    /\ UNCHANGED <<phase, args, st7701, panel, pc, i>>

\* ----------------------------------------------------------------- mirror

\* A faulty update that toggles the bit for mirror_x instead of setting it.
MirrorMadctl_toggle(madctl, mirror_x) ==
    IF mirror_x
    THEN (IF HasBit(madctl, ST7701_CMD_ML_BIT)
          THEN madctl - ST7701_CMD_ML_BIT ELSE madctl + ST7701_CMD_ML_BIT)
    ELSE AndNotBit(madctl, ST7701_CMD_ML_BIT)

\* if (mirror_x) madctl_val |= ML_BIT; else madctl_val &= ~ML_BIT;
MirrorMadctl(madctl, mirror_x) ==
    IF mirror_x THEN OrBit(madctl, ST7701_CMD_ML_BIT)
    ELSE AndNotBit(madctl, ST7701_CMD_ML_BIT)

\* A faulty mirror that stores the new value before it knows the transmission succeeded.
MirrorCall_storeFirst(s, mirror_x, mirror_y, txRet) ==
    LET madctl_val == MirrorMadctl(s.madctl_val, mirror_x) IN
    [ret |-> txRet,
     st |-> [s EXCEPT !.madctl_val = madctl_val],
     trace |-> <<Ev("tx", "LCD_CMD_MADCTL", 1, <<madctl_val>>, txRet)>>]

\* panel_st7701_mirror with the outcome of the transport: the return value,
\* the st7701_panel_t it leaves and its calls.
MirrorCall(s, mirror_x, mirror_y, txRet) ==
    LET madctl_val == MirrorMadctl(s.madctl_val, mirror_x) IN
    IF s.io = "NULL" THEN [ret |-> "ESP_ERR_INVALID_STATE", st |-> s, trace |-> <<>>]
    ELSE IF txRet # "ESP_OK"
    THEN [ret |-> txRet, st |-> s,
          trace |-> <<Ev("tx", "LCD_CMD_MADCTL", 1, <<madctl_val>>, txRet)>>]
    ELSE [ret |-> "ESP_OK",
          st |-> [s EXCEPT !.madctl_val = madctl_val],
          trace |-> <<Ev("tx", "LCD_CMD_MADCTL", 1, <<madctl_val>>, txRet)>>]

panel_st7701_mirror ==
    /\ phase = "live"
    /\ pc = "idle"
    /\ panel.mirror = "panel_st7701_mirror"
    /\ \E mirror_x \in BOOLEAN, mirror_y \in BOOLEAN, txRet \in TxResults :
         LET r == MirrorCall(st7701, mirror_x, mirror_y, txRet) IN
         /\ st7701' = r.st
         /\ trace' = r.trace
         /\ res' = ApplyEvents(res, r.trace)
         /\ prev' = Earlier(last)
         /\ last' = Call("mirror", r.ret, mirror_x, mirror_y, st7701.madctl_val)
    /\ UNCHANGED <<phase, args, panel, pc, i>>

\* ----------------------------------------------------------- invert_color

InvertCall(s, invert_color_data, txRet) ==
    LET command == IF invert_color_data THEN "LCD_CMD_INVON" ELSE "LCD_CMD_INVOFF" IN
    IF s.io = "NULL" THEN [ret |-> "ESP_ERR_INVALID_STATE", trace |-> <<>>]
    ELSE [ret |-> txRet, trace |-> <<Ev("tx", command, 0, <<>>, txRet)>>]

panel_st7701_invert_color ==
    /\ phase = "live"
    /\ pc = "idle"
    /\ panel.invert_color = "panel_st7701_invert_color"
    /\ \E invert_color_data \in BOOLEAN, txRet \in TxResults :
         LET r == InvertCall(st7701, invert_color_data, txRet) IN
         /\ trace' = r.trace
         /\ res' = ApplyEvents(res, r.trace)
         /\ prev' = Earlier(last)
         /\ last' = Call("invert_color", r.ret, invert_color_data, FALSE, st7701.madctl_val)
    /\ UNCHANGED <<phase, args, st7701, panel, pc, i>>

\* ---------------------------------------------------------- specification

Init ==
    /\ phase = "idle"
    /\ args = NoArgs
    /\ st7701 = ZeroState
    /\ panel = NoPanel
    /\ res = NoResources
    /\ last = NoCall
    /\ prev = NoCall
    /\ trace = <<>>
    /\ pc = "idle"
    /\ i = 0

Next ==
    \/ esp_lcd_new_panel_st7701
    \/ panel_st7701_init
    \/ panel_st7701_send_init_cmds
    \/ panel_st7701_init_delegate
    \/ panel_st7701_del
    \/ panel_st7701_reset
    \/ panel_st7701_mirror
    \/ panel_st7701_invert_color

Spec == Init /\ [][Next]_vars


\* ------------------------------------------------------------------ claims

\* The calls of one kind in the most recent call's trace, in order.
CallsOf(kind) == SelectSeq(trace, LAMBDA e : e.ev = kind)

\* The positions of the trace that hold a call of one kind.
PositionsOf(kind) == {p \in 1 .. Len(trace) : trace[p].ev = kind}

\* create got past its argument checks and calloc succeeded.
PartialSetup ==
    /\ last.op = "create"
    /\ Len(trace) >= 1
    /\ trace[1].ev = "calloc"
    /\ trace[1].ret = "ESP_OK"

\* create reached the switch on bits_per_pixel.
ReachedPixelSwitch ==
    /\ PartialSetup
    /\ \A p \in PositionsOf("gpio_config") : trace[p].ret = "ESP_OK"
    /\ args.rgb_ele_order \in {"LCD_RGB_ELEMENT_ORDER_RGB", "LCD_RGB_ELEMENT_ORDER_BGR"}

\* The table the caller asked to be played, from the arguments of create.
RequestedCmds == IF args.init_cmds.null THEN vendor_specific_init_default ELSE CustomCmds
RequestedSize == IF args.init_cmds.null THEN 37 ELSE args.init_cmds_size

InitReturned == last.op = "init" /\ pc = "idle"

\* C1: in every state of a constructed panel the colour-order bit (0x08) of
\* the shadow madctl is set exactly when BGR order was requested at create.
C1_ColorOrderBitReflectsRequest ==
    phase = "live" =>
        ((st7701.madctl_val \div 8) % 2 = 1
            <=> args.rgb_ele_order = "LCD_RGB_ELEMENT_ORDER_BGR")

\* C2: a create that fails after partial setup leaves nothing behind: the
\* PanelState is freed exactly once, the reset pin (when specified) is
\* de-configured, no panel operation is overridden; a create rejected for a
\* null or absent argument allocates and configures nothing.
C2_FailedCreateLeavesNothing ==
    phase = "failed" =>
        /\ last.ret # "ESP_OK"
        /\ panel = NoPanel
        /\ res.heap # "allocated"
        /\ ~res.gpio_configured
        /\ res.dpi # "alive"
        /\ PartialSetup =>
              /\ res.heap = "freed"
              /\ res.frees = 1
              /\ Len(CallsOf("free")) = 1
              /\ trace[Len(trace)].ev = "free"
              /\ args.reset_gpio_num >= 0 =>
                    /\ res.gpio_resets = 1
                    /\ CallsOf("gpio_reset_pin")
                         = <<Ev("gpio_reset_pin", "", args.reset_gpio_num, <<>>, "ESP_OK")>>
              /\ args.reset_gpio_num < 0 => res.gpio_resets = 0
        /\ ~(args.io /\ args.panel_dev_config /\ args.ret_panel
             /\ args.vendor_config /\ args.dpi_config /\ args.dsi_bus) =>
              /\ last.ret = "ESP_ERR_INVALID_ARG"
              /\ trace = <<>>
              /\ res = NoResources

\* A create whose DPI panel constructor failed after the reset pin had been
\* configured, rolled back.
C2_Witness ==
    /\ phase = "failed"
    /\ PartialSetup
    /\ args.reset_gpio_num >= 0
    /\ CallsOf("esp_lcd_new_panel_dpi") # <<>>
    /\ last.ret = "ESP_ERR_NO_MEM"
    /\ res.frees = 1
    /\ res.gpio_resets = 1

\* C3: init transmits the requested table entry by entry in table order, each
\* transmission followed by the entry's delay, and stops at the first failed
\* transmission, whose failure it returns; the wrapped panel's original init
\* is called exactly when every entry was transmitted, after the last delay,
\* and its result is init's result.
C3_InitPlaysTableThenDelegates ==
    last.op = "init" =>
        /\ Len(trace) <= 2 * RequestedSize + 1
        /\ \A p \in 1 .. Len(trace) :
              /\ (p % 2 = 1 /\ p <= 2 * RequestedSize) =>
                    /\ trace[p].ev = "tx"
                    /\ trace[p].what = RequestedCmds[(p + 1) \div 2].cmd
                    /\ trace[p].n = RequestedCmds[(p + 1) \div 2].data_bytes
              /\ p % 2 = 0 =>
                    /\ trace[p].ev = "vTaskDelay"
                    /\ trace[p].n = RequestedCmds[p \div 2].delay_ms
              /\ p = 2 * RequestedSize + 1 =>
                    /\ trace[p].ev = "call"
                    /\ trace[p].what = "dpi_panel_init"
              /\ (trace[p].ev = "tx" /\ trace[p].ret # "ESP_OK") => p = Len(trace)
        /\ InitReturned =>
              /\ Len(trace) >= 1
              /\ trace[Len(trace)].ev \in {"tx", "call"}
              /\ last.ret = trace[Len(trace)].ret
              /\ trace[Len(trace)].ev = "tx" => last.ret # "ESP_OK"

\* init on a caller's two-entry table: both entries sent, then the original
\* init, whose failure is returned.
C3_Witness ==
    /\ InitReturned
    /\ ~args.init_cmds.null
    /\ args.init_cmds_size = 2
    /\ Len(trace) = 5
    /\ trace[5].ev = "call"
    /\ last.ret = "ESP_ERR_NO_MEM"

\* C4: delete releases the reset pin exactly once when one was configured
\* (never otherwise), then calls the wrapped panel's original delete exactly
\* once, then frees the PanelState exactly once, and reads no field of the
\* PanelState after the free.
C4_DeleteReleasesOnceInOrder ==
    last.op = "del" =>
        /\ phase = "deleted"
        /\ Len(CallsOf("gpio_reset_pin")) = (IF args.reset_gpio_num >= 0 THEN 1 ELSE 0)
        /\ \A p \in PositionsOf("gpio_reset_pin") : trace[p].n = args.reset_gpio_num
        /\ Len(CallsOf("call")) = 1
        /\ CallsOf("call")[1].what = "dpi_panel_del"
        /\ Len(CallsOf("free")) = 1
        /\ \A g \in PositionsOf("gpio_reset_pin"), c \in PositionsOf("call") : g < c
        /\ \A c \in PositionsOf("call"), f \in PositionsOf("free") : c < f
        /\ \A f \in PositionsOf("free"), d \in PositionsOf("deref") : d < f
        /\ res.frees = 1
        /\ res.heap = "freed"
        /\ res.dpi_dels = 1
        /\ res.dpi = "deleted"
        /\ res.gpio_resets = (IF args.reset_gpio_num >= 0 THEN 1 ELSE 0)
        /\ ~res.gpio_configured

\* delete of a panel with a reset pin, after mirror calls.
C4_Witness ==
    /\ last.op = "del"
    /\ args.reset_gpio_num >= 0
    /\ prev.op = "mirror"
    /\ res.frees = 1
    /\ res.gpio_resets = 1
    /\ res.dpi_dels = 1

\* C5: reset with a reset pin transmits nothing and drives the pin to the
\* active level and then to the inactive level; reset with no pin transmits
\* exactly one software reset with zero parameter bytes, touches no GPIO,
\* and fails only if that transmission fails.
C5_ResetHardOrSoft ==
    last.op = "reset" =>
        /\ args.reset_gpio_num >= 0 =>
              /\ CallsOf("tx") = <<>>
              /\ CallsOf("gpio_set_level")
                   = <<Ev("gpio_set_level", "", args.reset_gpio_num,
                          <<args.reset_active_high>>, "ESP_OK"),
                       Ev("gpio_set_level", "", args.reset_gpio_num,
                          <<1 - args.reset_active_high>>, "ESP_OK")>>
              /\ last.ret = "ESP_OK"
        /\ args.reset_gpio_num < 0 =>
              /\ Len(CallsOf("tx")) = 1
              /\ CallsOf("tx")[1].what = "LCD_CMD_SWRESET"
              /\ CallsOf("tx")[1].n = 0
              /\ CallsOf("tx")[1].bytes = <<>>
              /\ CallsOf("gpio_set_level") = <<>>
              /\ last.ret = CallsOf("tx")[1].ret

\* A hardware reset on an active-high pin.
C5_Witness ==
    /\ last.op = "reset"
    /\ args.reset_gpio_num >= 0
    /\ args.reset_active_high = 1
    /\ Len(CallsOf("gpio_set_level")) = 2

\* C6: a mirror whose transmission fails returns that failure and leaves the
\* shadow madctl as it was; the shadow madctl changes only in a mirror call
\* whose transmission succeeded, to the byte that was transmitted.
C6_MadctlFollowsTransmission ==
    /\ [](last.op = "mirror" =>
            /\ Len(trace) = 1
            /\ trace[1].ev = "tx"
            /\ trace[1].what = "LCD_CMD_MADCTL"
            /\ trace[1].n = 1
            /\ last.ret = trace[1].ret
            /\ trace[1].ret # "ESP_OK" => st7701.madctl_val = last.before
            /\ trace[1].ret = "ESP_OK" => <<st7701.madctl_val>> = trace[1].bytes)
    /\ [][(phase = "live" /\ phase' = "live"
             /\ st7701'.madctl_val # st7701.madctl_val) =>
            /\ last'.op = "mirror"
            /\ last'.ret = "ESP_OK"
            /\ last'.before = st7701.madctl_val
            /\ trace'[1].bytes = <<st7701'.madctl_val>>]_vars

\* A failed mirror(false) on a panel whose mirror-X bit was set.
C6_Witness ==
    /\ last.op = "mirror"
    /\ last.ret = "ESP_FAIL"
    /\ ~last.x
    /\ last.before = 16
    /\ st7701.madctl_val = 16

\* Two consecutive successful mirror calls: prev, then last.
MirrorPair ==
    /\ prev.op = "mirror"
    /\ last.op = "mirror"
    /\ last.ret = "ESP_OK"

\* mirror changes no bit of madctl other than bit 4 (0x10).
OnlyMirrorBitChanged ==
    (last.op = "mirror" /\ last.ret = "ESP_OK") =>
        /\ st7701.madctl_val % 16 = last.before % 16
        /\ st7701.madctl_val \div 32 = last.before \div 32
        /\ ((st7701.madctl_val \div 16) % 2 = 1) <=> last.x

\* Two mirror calls with the same mirror_x leave what one leaves and
\* transmit the same byte.
MirrorIdempotent ==
    (MirrorPair /\ prev.x = last.x) =>
        /\ st7701.madctl_val = last.before
        /\ trace[1].bytes = <<last.before>>

\* C7 as stated: with every transmission succeeding, mirror is idempotent,
\* touches only bit 4, and mirror(true) then mirror(false) restores the
\* madctl held before the pair, for every starting madctl.
C7_RoundTripRestoresAnyStart ==
    /\ MirrorIdempotent
    /\ OnlyMirrorBitChanged
    /\ (MirrorPair /\ prev.x /\ ~last.x) => st7701.madctl_val = prev.before

\* C7 amended: with every transmission succeeding, mirror is idempotent and
\* touches only bit 4; mirror(true) then mirror(false) leaves the madctl
\* held before the pair with bit 4 cleared, which is the madctl held before
\* the pair exactly when its bit 4 was clear.
C7_RoundTripClearsMirrorBit ==
    /\ MirrorIdempotent
    /\ OnlyMirrorBitChanged
    /\ (MirrorPair /\ prev.x /\ ~last.x) =>
          /\ st7701.madctl_val % 16 = prev.before % 16
          /\ st7701.madctl_val \div 32 = prev.before \div 32
          /\ (st7701.madctl_val \div 16) % 2 = 0
          /\ (st7701.madctl_val = prev.before <=> (prev.before \div 16) % 2 = 0)

\* mirror(true) then mirror(false), both transmitted, on a panel whose
\* mirror-X bit was set before the pair.
C7_Witness ==
    /\ MirrorPair
    /\ prev.x
    /\ ~last.x
    /\ prev.before = 16
    /\ st7701.madctl_val = 0

\* C8: create with 16, 18 or 24 bits per pixel sets colmod to 0x50, 0x60 or
\* 0x70, create with any other depth fails (with the unsupported-
\* configuration error when the depth is what rejects it), and no later
\* operation changes colmod.
C8_ColmodFixedByDepth ==
    /\ phase = "live" =>
          /\ args.bits_per_pixel \in {16, 18, 24}
          /\ args.bits_per_pixel = 16 => st7701.colmod_val = 80
          /\ args.bits_per_pixel = 18 => st7701.colmod_val = 96
          /\ args.bits_per_pixel = 24 => st7701.colmod_val = 112
    /\ (last.op = "create" /\ args.bits_per_pixel \notin {16, 18, 24}) =>
          /\ phase = "failed"
          /\ last.ret # "ESP_OK"
          /\ ReachedPixelSwitch => last.ret = "ESP_ERR_NOT_SUPPORTED"

\* An 18-bit panel after init has played its table.
C8_Witness ==
    /\ phase = "live"
    /\ args.bits_per_pixel = 18
    /\ st7701.colmod_val = 96
    /\ InitReturned
    /\ prev.op = "mirror"

\* C9: after a successful create the handle's five operations are the
\* driver's, its user data is the PanelState, and the captured originals are
\* the wrapped panel's own functions; init and delete call the original at
\* most once and never the override.
C9_OriginalsCapturedBeforeOverride ==
    /\ phase = "live" =>
          /\ panel.del = "panel_st7701_del"
          /\ panel.init = "panel_st7701_init"
          /\ panel.reset = "panel_st7701_reset"
          /\ panel.mirror = "panel_st7701_mirror"
          /\ panel.invert_color = "panel_st7701_invert_color"
          /\ panel.user_data = "st7701"
          /\ st7701.del = "dpi_panel_del"
          /\ st7701.init = "dpi_panel_init"
    /\ last.op = "init" =>
          /\ Len(CallsOf("call")) <= 1
          /\ \A p \in PositionsOf("call") : trace[p].what = "dpi_panel_init"
    /\ last.op = "del" =>
          /\ Len(CallsOf("call")) <= 1
          /\ \A p \in PositionsOf("call") : trace[p].what = "dpi_panel_del"

\* init that reached the wrapped panel's original init.
C9_Witness ==
    /\ phase = "live"
    /\ InitReturned
    /\ CallsOf("call") = <<Ev("call", "dpi_panel_init", 0, <<>>, "ESP_OK")>>

\* C10: for each of the 37 entries of the built-in table, the byte count init
\* passes to the transport is at most the number of bytes in the entry's
\* data array, and at most 16.
C10_DefaultTableCountsWithinData ==
    /\ Len(vendor_specific_init_default) = 37
    /\ (last.op = "init" /\ st7701.init_cmds.null) =>
          \A p \in PositionsOf("tx") :
              /\ trace[p].n <= Len(vendor_specific_init_default[(p + 1) \div 2].data)
              /\ trace[p].n <= 16

=============================================================================
